---- MODULE Spec2Model ----
(***************************************************************************)
(* The Lucy shell (App.tsx): the memory store and its persistence in       *)
(* localStorage, the journal view, and the chat controller.                *)
(*                                                                         *)
(* Strings are sequences of one-character strings, so that trim() is       *)
(* computed.  A localStorage value is a record [present, text]; a JSON     *)
(* text is a sequence of tokens written by JSONstringify... and read back  *)
(* by JSONparse..., which rejects a malformed sequence (SyntaxError).      *)
(* A uuid is modelled by its serial number, a time by a clock reading.     *)
(***************************************************************************)
EXTENDS Integers, Sequences, FiniteSets, TLC

\* ------------------------------------------------------------------ bounds
\* Records the store may hold.
MaxRecords == 2
\* Chat turns of one page load.
MaxTurns == 2
\* getUserMedia requests that may be awaited at once.
MaxMicRequests == 2

\* ----------------------------------------------------------------- strings
IsSpace(ch) == ch = " "

RECURSIVE TrimStart(_)
TrimStart(s) == IF s # <<>> /\ IsSpace(Head(s)) THEN TrimStart(Tail(s)) ELSE s

RECURSIVE TrimEnd(_)
TrimEnd(s) ==
  IF s # <<>> /\ IsSpace(s[Len(s)]) THEN TrimEnd(SubSeq(s, 1, Len(s) - 1)) ELSE s

\* String.prototype.trim
Trim(s) == TrimEnd(TrimStart(s))

\* The texts a user types (descriptions, details entries, chat input).
Texts == { <<>>, <<" ">>, <<"a">>, <<" ", "A">> }

\* ------------------------------------------------------------------- types
Category == {"struggles", "development", "mindset"}

\* The key order of DEFAULT_MEMORY, which {...memory, [c]: ...} preserves.
CategoryKeys == <<"struggles", "development", "mindset">>

DEFAULT_MEMORY == [c \in Category |-> <<>>]

MemoryValue(d, det) == [description |-> d, details |-> det]

MemoryItem(id, ts, d, det) == [id |-> id, timestamp |-> ts, value |-> MemoryValue(d, det)]

ChatMessage(id, role, text, ts) == [id |-> id, role |-> role, text |-> text, timestamp |-> ts]

PermissionKeys == <<"mic", "location", "activity", "autoUpdate">>

DEFAULT_PERMISSIONS == [k \in {"mic", "location", "activity", "autoUpdate"} |-> FALSE]

\* -------------------------------------------------------------------- JSON
\* One token of a JSON text: punctuation, a key, a string or a boolean.
Tok(t) == [t |-> t, k |-> "", s |-> <<>>, n |-> 0]

KeyTok(k) == [t |-> "key", k |-> k, s |-> <<>>, n |-> 0]

\* A string literal: a text the user typed ...
StrTok(s) == [t |-> "str", k |-> "", s |-> s, n |-> 0]

\* ... or a uuid / an ISO time, written by its number.
NumStrTok(n) == [t |-> "str", k |-> "", s |-> <<>>, n |-> n]

BoolTok(b) == Tok(IF b THEN "true" ELSE "false")

RECURSIVE Concat(_)
Concat(ss) == IF ss = <<>> THEN <<>> ELSE Head(ss) \o Concat(Tail(ss))

StringifyItem(item) ==
  << Tok("{"), KeyTok("id"), NumStrTok(item.id),
     KeyTok("timestamp"), NumStrTok(item.timestamp),
     KeyTok("value"), Tok("{"), KeyTok("description"), StrTok(item.value.description),
     KeyTok("details"), Tok("[") >>
  \o [i \in 1..Len(item.value.details) |-> StrTok(item.value.details[i])]
  \o << Tok("]"), Tok("}"), Tok("}") >>

StringifyItems(items) ==
  <<Tok("[")>> \o Concat([i \in 1..Len(items) |-> StringifyItem(items[i])]) \o <<Tok("]")>>

\* JSON.stringify(updated) of a memory store: its own keys, in insertion order.
JSONstringifyMemory(mem) ==
  <<Tok("{")>>
  \o Concat([i \in 1..Len(CategoryKeys) |->
       IF CategoryKeys[i] \in DOMAIN mem
       THEN <<KeyTok(CategoryKeys[i])>> \o StringifyItems(mem[CategoryKeys[i]])
       ELSE <<>>])
  \o <<Tok("}")>>

\* JSON.stringify(newPerms) of the permission flags.
JSONstringifyPerms(perms) ==
  <<Tok("{")>>
  \o Concat([i \in 1..Len(PermissionKeys) |->
       IF PermissionKeys[i] \in DOMAIN perms
       THEN <<KeyTok(PermissionKeys[i]), BoolTok(perms[PermissionKeys[i]])>>
       ELSE <<>>])
  \o <<Tok("}")>>

\* The parsers read a text from position i and return [ok, val, next];
\* ok = FALSE is JSON.parse throwing a SyntaxError.
ParseFail == [ok |-> FALSE, next |-> 0]

At(toks, i) == IF i \in 1..Len(toks) THEN toks[i] ELSE Tok("eof")

IsKey(toks, i, k) == At(toks, i).t = "key" /\ At(toks, i).k = k

RECURSIVE ParseStrings(_, _, _)
ParseStrings(toks, i, acc) ==
  IF At(toks, i).t = "str"
  THEN ParseStrings(toks, i + 1, Append(acc, At(toks, i).s))
  ELSE [ok |-> TRUE, val |-> acc, next |-> i]

ParseItem(toks, i) ==
  IF /\ At(toks, i).t = "{"
     /\ IsKey(toks, i + 1, "id") /\ At(toks, i + 2).t = "str"
     /\ IsKey(toks, i + 3, "timestamp") /\ At(toks, i + 4).t = "str"
     /\ IsKey(toks, i + 5, "value") /\ At(toks, i + 6).t = "{"
     /\ IsKey(toks, i + 7, "description") /\ At(toks, i + 8).t = "str"
     /\ IsKey(toks, i + 9, "details") /\ At(toks, i + 10).t = "["
  THEN LET det == ParseStrings(toks, i + 11, <<>>)
           j == det.next
       IN  IF At(toks, j).t = "]" /\ At(toks, j + 1).t = "}" /\ At(toks, j + 2).t = "}"
           THEN [ok |-> TRUE,
                 val |-> MemoryItem(At(toks, i + 2).n, At(toks, i + 4).n,
                                    At(toks, i + 8).s, det.val),
                 next |-> j + 3]
           ELSE ParseFail
  ELSE ParseFail

RECURSIVE ParseItems(_, _, _)
ParseItems(toks, i, acc) ==
  IF At(toks, i).t = "]"
  THEN [ok |-> TRUE, val |-> acc, next |-> i + 1]
  ELSE LET it == ParseItem(toks, i)
       IN  IF it.ok THEN ParseItems(toks, it.next, Append(acc, it.val)) ELSE ParseFail

RECURSIVE ParseMembers(_, _, _)
ParseMembers(toks, i, acc) ==
  IF At(toks, i).t = "}"
  THEN IF i = Len(toks) THEN [ok |-> TRUE, val |-> acc, next |-> i + 1] ELSE ParseFail
  ELSE IF At(toks, i).t = "key" /\ At(toks, i).k \in Category /\ At(toks, i + 1).t = "["
       THEN LET its == ParseItems(toks, i + 2, <<>>)
            IN  IF its.ok
                THEN ParseMembers(toks, its.next,
                       [c \in DOMAIN acc \cup {At(toks, i).k} |->
                          IF c = At(toks, i).k THEN its.val ELSE acc[c]])
                ELSE ParseFail
       ELSE ParseFail

\* JSON.parse(storedMemory): [ok, val]; val maps the keys found to their items.
JSONparseMemory(toks) ==
  IF At(toks, 1).t = "{" THEN ParseMembers(toks, 2, <<>>) ELSE ParseFail

RECURSIVE ParseFlags(_, _, _)
ParseFlags(toks, i, acc) ==
  IF At(toks, i).t = "}"
  THEN IF i = Len(toks) THEN [ok |-> TRUE, val |-> acc, next |-> i + 1] ELSE ParseFail
  ELSE IF At(toks, i).t = "key" /\ At(toks, i + 1).t \in {"true", "false"}
       THEN ParseFlags(toks, i + 2,
              [k \in DOMAIN acc \cup {At(toks, i).k} |->
                 IF k = At(toks, i).k THEN At(toks, i + 1).t = "true" ELSE acc[k]])
       ELSE ParseFail

\* JSON.parse(storedPerms)
JSONparsePerms(toks) ==
  IF At(toks, 1).t = "{" THEN ParseFlags(toks, 2, <<>>) ELSE ParseFail

\* ------------------------------------------------------------------- state
VARIABLES
  pc,                  \* "mounted" | "effects" | "running" | "crashed"
  storage,             \* localStorage: lucy_memory, lucy_theme, lucy_permissions
  memory,              \* useState<MemoryStore>
  theme,               \* useState<Theme>
  themeDep,            \* the theme the [theme] effect last ran for
  permissions,         \* useState of the permission flags
  journalFilter,       \* useState<Category | 'all'>
  journalSearchQuery,  \* useState('')
  chatMessages,        \* useState<ChatMessage[]>
  inputMessage,        \* useState('')
  isChatLoading,       \* useState(false)
  pending,             \* the sendMessageToLucy calls not yet settled
  modalError,          \* what the entry form last reported
  micPending,          \* the getUserMedia promises not yet settled
  now                  \* the clock

vars == << pc, storage, memory, theme, themeDep, permissions, journalFilter,
           journalSearchQuery, chatMessages, inputMessage, isChatLoading, pending,
           modalError, micPending, now >>

storeVars == << memory, storage >>

chatVars == << chatMessages, inputMessage, isChatLoading, pending >>

journalVars == << journalFilter, journalSearchQuery >>

\* The clock readings; Date.now() and new Date() never run backwards here.
Instants == 0..1

ClockReadings == { t \in Instants : t >= now }

Absent == [present |-> FALSE, text |-> <<>>]

Stored(text) == [present |-> TRUE, text |-> text]

AbsentTheme == [present |-> FALSE, text |-> ""]

\* if (storedMemory): null and the empty string are both falsy.
Truthy(item) == item.present /\ item.text # <<>>

\* if (storedTheme), the theme being stored as it is, not as JSON.
TruthyTheme(item) == item.present /\ item.text # ""

WelcomeText == <<"S", "y", "s", "t", "e", "m", "s", " ", "o", "n", "l", "i", "n", "e", ".", " ", "L", "u", "c", "y", " ", "r", "e", "a", "d", "y", ".">>

FailureText == <<"C", "o", "n", "n", "e", "c", "t", "i", "o", "n", " ", "E", "r", "r", "o", "r", ".">>

\* The seeded greeting, id 'welcome' (serial 0).
Welcome(t) == ChatMessage(0, "model", WelcomeText, t)

\* The state of the first render (the useState initial values).
Mounted(t) ==
  /\ pc = "mounted"
  /\ memory = DEFAULT_MEMORY
  /\ theme = "light"
  /\ themeDep = "none"
  /\ permissions = DEFAULT_PERMISSIONS
  /\ journalFilter = "all"
  /\ journalSearchQuery = <<>>
  /\ chatMessages = <<Welcome(t)>>
  /\ inputMessage = <<>>
  /\ isChatLoading = FALSE
  /\ pending = <<>>
  /\ modalError = "none"
  /\ micPending = 0

\* A first launch: nothing is stored yet.
Init ==
  /\ now = 0
  /\ storage = [lucy_memory |-> Absent, lucy_theme |-> AbsentTheme,
                lucy_permissions |-> Absent]
  /\ Mounted(0)

\* ------------------------------------------------------------ page load
\* What the initialization effect reads under each key.
LoadedMemory == JSONparseMemory(storage.lucy_memory.text)

LoadedPerms == JSONparsePerms(storage.lucy_permissions.text)

\* JSON.parse throws in the effect: line 123, or line 130.
InitThrows ==
  \/ Truthy(storage.lucy_memory) /\ ~LoadedMemory.ok
  \/ Truthy(storage.lucy_permissions) /\ ~LoadedPerms.ok

\* useEffect(() => { ... }, []): the three keys are read in turn.  An exception
\* in the effect is not caught: React unmounts the tree, and no state update of
\* the effect is rendered.  Whether the [theme] effect of the same commit still
\* runs (and stores 'light') depends on the React version.
InitEffect ==
  /\ pc = "mounted"
  /\ IF InitThrows
     THEN /\ pc' = "crashed"
          /\ \E ran \in BOOLEAN :
               storage' = IF ran THEN [storage EXCEPT !.lucy_theme = Stored("light")]
                          ELSE storage
          /\ UNCHANGED << memory, theme, permissions >>
     ELSE /\ pc' = "effects"
          /\ memory' = IF Truthy(storage.lucy_memory) THEN LoadedMemory.val ELSE memory
          /\ theme' = IF TruthyTheme(storage.lucy_theme)
                      THEN storage.lucy_theme.text ELSE theme
          /\ permissions' = IF Truthy(storage.lucy_permissions)
                            THEN LoadedPerms.val ELSE permissions
          /\ UNCHANGED storage
  /\ UNCHANGED << themeDep, journalVars, chatVars, modalError, now, micPending >>

\* useEffect(() => { localStorage.setItem('lucy_theme', theme) ... }, [theme]) at
\* the mount: it stores the theme of the first render, 'light'.
MountThemeEffect ==
  /\ pc = "effects"
  /\ pc' = "running"
  /\ storage' = [storage EXCEPT !.lucy_theme = Stored("light")]
  /\ themeDep' = "light"
  /\ UNCHANGED << memory, theme, permissions, journalVars, chatVars, modalError, now,
                  micPending >>

\* The same effect after a render in which theme has changed.
ThemeEffect ==
  /\ pc = "running"
  /\ theme # themeDep
  /\ storage' = [storage EXCEPT !.lucy_theme = Stored(theme)]
  /\ themeDep' = theme
  /\ UNCHANGED << pc, memory, theme, permissions, journalVars, chatVars, modalError, now,
                  micPending >>

\* The page handles an event only once the effects of the last render have run.
Ready == pc = "running" /\ theme = themeDep

\* toggleTheme
toggleTheme ==
  /\ Ready
  /\ theme' = IF theme = "light" THEN "dark" ELSE "light"
  /\ UNCHANGED << pc, storage, memory, themeDep, permissions, journalVars, chatVars,
                  modalError, now, micPending >>

\* The page is closed, or has crashed, and is opened again: localStorage is all
\* that is kept.
Reload ==
  /\ pc = "crashed" \/ Ready
  /\ \E t \in ClockReadings :
       /\ now' = t
       /\ pc' = "mounted"
       /\ memory' = DEFAULT_MEMORY
       /\ theme' = "light"
       /\ themeDep' = "none"
       /\ permissions' = DEFAULT_PERMISSIONS
       /\ journalFilter' = "all"
       /\ journalSearchQuery' = <<>>
       /\ chatMessages' = <<Welcome(t)>>
       /\ inputMessage' = <<>>
       /\ isChatLoading' = FALSE
       /\ pending' = <<>>
       /\ modalError' = "none"
       /\ micPending' = 0
  /\ UNCHANGED storage

\* ------------------------------------------------------------ memory store
RECURSIVE CountAll(_, _)
CountAll(mem, cats) ==
  IF cats = {} THEN 0
  ELSE LET c == CHOOSE x \in cats : TRUE
       IN  Len(mem[c]) + CountAll(mem, cats \ {c})

\* The records a store holds.
RecordCount(mem) == CountAll(mem, DOMAIN mem)

\* crypto.randomUUID() of a new record: a value no record has yet, modelled by
\* the record's serial number.
ItemUUID(mem) == RecordCount(mem) + 1

\* A mutant of Updated: the new record replaces the category's list.
UpdatedReplacing(mem, c, newItem) == [mem EXCEPT ![c] = <<newItem>>]

\* A mutant of Updated: the new record is put last.
UpdatedAppending(mem, c, newItem) == [mem EXCEPT ![c] = Append(@, newItem)]

\* const updated = { ...memory, [c]: [newItem, ...memory[c]] }
Updated(mem, c, newItem) == [mem EXCEPT ![c] = <<newItem>> \o @]

\* A mutant of SavedText: the store of the last render is written.
SavedTextStale(mem, updated) == JSONstringifyMemory(mem)

\* localStorage.setItem('lucy_memory', JSON.stringify(updated))
SavedText(mem, updated) == JSONstringifyMemory(updated)

\* onSave(c, d, det) of the entry modal.  memory[c] of a store that has no list
\* under c is undefined, and spreading it throws before anything is set.
onSave(c, d, det) ==
  /\ Ready
  /\ c \in DOMAIN memory
  /\ RecordCount(memory) < MaxRecords
  /\ \E t \in ClockReadings :
       LET newItem == MemoryItem(ItemUUID(memory), t, d, det)
           updated == Updated(memory, c, newItem)
       IN  /\ now' = t
           /\ memory' = updated
           /\ storage' = [storage EXCEPT !.lucy_memory = Stored(SavedText(memory, updated))]
  /\ UNCHANGED << pc, theme, themeDep, permissions, journalVars, chatVars, micPending >>

\* The entry form (MemoryEntryModal): the details entries are trimmed and the
\* empty ones dropped.
RECURSIVE NormalizeDetails(_)
NormalizeDetails(det) ==
  IF det = <<>> THEN <<>>
  ELSE IF Trim(Head(det)) = <<>> THEN NormalizeDetails(Tail(det))
       ELSE <<Trim(Head(det))>> \o NormalizeDetails(Tail(det))

\* A mutant of InvalidDescription: the description is not trimmed first.
InvalidDescriptionUntrimmed(d) == d = <<>>

\* The form's validation rule: the description is empty once trimmed.
InvalidDescription(d) == Trim(d) = <<>>

\* The details lists a user enters.
DetailInputs == { <<>>, << <<" ">>, <<" ", "b">> >> }

\* addRecord: the form validates, and calls onSave with what it collected.
addRecord(c, d, det) ==
  IF InvalidDescription(d)
  THEN /\ Ready
       /\ modalError' = "ValidationError"
       /\ UNCHANGED << pc, storage, memory, theme, themeDep, permissions, journalVars,
                       chatVars, now, micPending >>
  ELSE /\ onSave(c, d, NormalizeDetails(det))
       /\ modalError' = "none"

\* ----------------------------------------------------------------- journal
\* A mutant of JournalOrder: the store's own key order.
JournalOrderOfKeys == CategoryKeys

\* (['development', 'mindset', 'struggles'] as const)
JournalOrder == <<"development", "mindset", "struggles">>

Filters == Category \cup {"all"}

ToLowerChar(ch) == IF ch = "A" THEN "a" ELSE IF ch = "B" THEN "b" ELSE ch

\* String.prototype.toLowerCase
ToLowerCase(s) == [i \in 1..Len(s) |-> ToLowerChar(s[i])]

\* String.prototype.includes
Includes(s, q) == \E i \in 0..(Len(s) - Len(q)) : SubSeq(s, i + 1, i + Len(q)) = q

\* A mutant of Matches: the texts are compared as they are written.
MatchesCaseSensitive(item, query) ==
  \/ query = <<>>
  \/ Includes(item.value.description, query)
  \/ \E i \in 1..Len(item.value.details) : Includes(item.value.details[i], query)

\* The filter callback of renderJournal.
Matches(item, query) ==
  \/ query = <<>>
  \/ Includes(ToLowerCase(item.value.description), ToLowerCase(query))
  \/ \E i \in 1..Len(item.value.details) :
       Includes(ToLowerCase(item.value.details[i]), ToLowerCase(query))

\* Array.prototype.filter
RECURSIVE FilterItems(_, _)
FilterItems(items, query) ==
  IF items = <<>> THEN <<>>
  ELSE IF Matches(Head(items), query)
       THEN <<Head(items)>> \o FilterItems(Tail(items), query)
       ELSE FilterItems(Tail(items), query)

\* The categories renderJournal walks, in its order, for a filter.
ShownCategories(filter) ==
  LET keep(cat) == filter = "all" \/ filter = cat
  IN  Concat([i \in 1..Len(JournalOrder) |->
                IF keep(JournalOrder[i]) THEN <<JournalOrder[i]>> ELSE <<>>])

\* The cards renderJournal shows: (category, item), in the order shown.
JournalView(mem, filter, query) ==
  LET cats == ShownCategories(filter)
      cards(cat) == LET its == FilterItems(mem[cat], query)
                    IN  [i \in 1..Len(its) |-> [category |-> cat, item |-> its[i]]]
  IN  Concat([i \in 1..Len(cats) |-> cards(cats[i])])

\* filterByCategory: the journal with no search text.
filterByCategory(mem, filter) == JournalView(mem, filter, <<>>)

\* setJournalFilter(cat)
setJournalFilter(f) ==
  /\ Ready
  /\ journalFilter' = f
  /\ UNCHANGED << pc, storage, memory, theme, themeDep, permissions, journalSearchQuery,
                  chatVars, modalError, now, micPending >>

\* setJournalSearchQuery(e.target.value)
setJournalSearchQuery(q) ==
  /\ Ready
  /\ journalSearchQuery' = q
  /\ UNCHANGED << pc, storage, memory, theme, themeDep, permissions, journalFilter,
                  chatVars, modalError, now, micPending >>

\* -------------------------------------------------------------------- chat
\* The texts the backend answers with.
Responses == { <<"o", "k">>, <<>> }

\* crypto.randomUUID() of a new message, modelled by its serial number in the
\* transcript (the greeting is 0).
MessageUUID(msgs) == Len(msgs)

RemoveAt(seq, i) == SubSeq(seq, 1, i - 1) \o SubSeq(seq, i + 1, Len(seq))

\* A mutant of SendRejected: the busy flag is not looked at.
SendRejectedIgnoringBusy(input, loading) == Trim(input) = <<>>

\* if (!inputMessage.trim() || isChatLoading) return;
SendRejected(input, loading) == Trim(input) = <<>> \/ loading

\* A mutant of RequestMemory: the handler keeps the store of the first render.
RequestMemoryOfFirstRender(mem) == DEFAULT_MEMORY

\* The store handed to sendMessageToLucy(userMsg.text, memory).
RequestMemory(mem) == mem

\* setInputMessage(e.target.value)
setInputMessage(text) ==
  /\ Ready
  /\ inputMessage' = text
  /\ UNCHANGED << pc, storage, memory, theme, themeDep, permissions, journalVars,
                  chatMessages, isChatLoading, pending, modalError, now, micPending >>

\* handleSendMessage, up to its await: the user message is appended, the input
\* cleared, the busy flag set and sendMessageToLucy(userMsg.text, memory) called.
handleSendMessage ==
  /\ Ready
  /\ IF SendRejected(inputMessage, isChatLoading)
     THEN UNCHANGED vars
     ELSE /\ Len(chatMessages) + Len(pending) + 2 <= 1 + 2 * MaxTurns
          /\ \E t \in ClockReadings :
               /\ now' = t
               /\ chatMessages' = Append(chatMessages,
                    ChatMessage(MessageUUID(chatMessages), "user", inputMessage, t))
          /\ inputMessage' = <<>>
          /\ isChatLoading' = TRUE
          /\ pending' = Append(pending, [text |-> inputMessage, memory |-> RequestMemory(memory)])
          /\ UNCHANGED << pc, storage, memory, theme, themeDep, permissions, journalVars,
                          modalError, micPending >>

\* The message the catch block appends.
FailureMessage(msgs, t) == ChatMessage(MessageUUID(msgs), "model", FailureText, t)

\* A mutant of LoadingAfterSettle: the busy flag is left set.
LoadingLeftSet == TRUE

\* What the finally block leaves in isChatLoading.
LoadingAfterSettle == FALSE

\* The awaited call i resolves with responseText: the try block goes on, then
\* the finally block.
BackendResolves(i, responseText) ==
  /\ pc = "running"
  /\ i \in DOMAIN pending
  /\ \E t \in ClockReadings :
       /\ now' = t
       /\ chatMessages' = Append(chatMessages,
            ChatMessage(MessageUUID(chatMessages), "model", responseText, t))
  /\ isChatLoading' = LoadingAfterSettle
  /\ pending' = RemoveAt(pending, i)
  /\ UNCHANGED << pc, storage, memory, theme, themeDep, permissions, journalVars,
                  inputMessage, modalError, micPending >>

\* The awaited call i rejects: the catch block, then the finally block.
BackendRejects(i) ==
  /\ pc = "running"
  /\ i \in DOMAIN pending
  /\ \E t \in ClockReadings :
       /\ now' = t
       /\ chatMessages' = Append(chatMessages, FailureMessage(chatMessages, t))
  /\ isChatLoading' = LoadingAfterSettle
  /\ pending' = RemoveAt(pending, i)
  /\ UNCHANGED << pc, storage, memory, theme, themeDep, permissions, journalVars,
                  inputMessage, modalError, micPending >>

\* ---------------------------------------------------------- specifications
AddRecord == \E c \in Category, d \in Texts, det \in DetailInputs : addRecord(c, d, det)

\* The memory bank from a first launch: the store, its persistence, the page
\* loads.
Next == InitEffect \/ MountThemeEffect \/ Reload \/ AddRecord

Spec == Init /\ [][Next]_vars

\* The chat from a first launch, with records being added meanwhile.
NextChat ==
  \/ InitEffect
  \/ MountThemeEffect
  \/ Reload
  \/ \E text \in Texts : setInputMessage(text)
  \/ handleSendMessage
  \/ \E i \in 1..MaxTurns, r \in Responses : BackendResolves(i, r)
  \/ \E i \in 1..MaxTurns : BackendRejects(i)
  \/ addRecord("mindset", <<"a">>, <<>>)

SpecChat == Init /\ [][NextChat]_vars

\* What localStorage may hold when the page is opened: nothing, the empty
\* string, a cut-off text, a JSON text of another shape, or what a session wrote.
StoredBefore == [DEFAULT_MEMORY EXCEPT !["mindset"] = <<MemoryItem(1, 0, <<"a">>, <<>>)>>]

MemoryTexts ==
  { Absent, Stored(<<>>), Stored(<<Tok("{")>>), Stored(<<Tok("{"), Tok("}")>>),
    Stored(JSONstringifyMemory(StoredBefore)) }

ThemeTexts == { AbsentTheme, Stored(""), Stored("dark"), Stored("purple") }

PermsTexts ==
  { Absent, Stored(<<Tok("{")>>),
    Stored(JSONstringifyPerms([DEFAULT_PERMISSIONS EXCEPT !["mic"] = TRUE])) }

InitStartup ==
  /\ now = 0
  /\ storage \in [lucy_memory : MemoryTexts, lucy_theme : ThemeTexts,
                  lucy_permissions : PermsTexts]
  /\ Mounted(0)

\* The page load over any stored values, and the theme setting.
NextStartup == InitEffect \/ MountThemeEffect \/ ThemeEffect \/ toggleTheme \/ Reload

SpecStartup == InitStartup /\ [][NextStartup]_vars

\* ------------------------------------------------------------------ claims
\* The store has the three category lists of a MemoryStore.
IsStore(mem) == DOMAIN mem = Category

\* A text that is empty or holds white space only.
IsBlank(s) == \A i \in 1..Len(s) : s[i] = " "

\* The details lists the entry form hands over.
DetailLists == { NormalizeDetails(det) : det \in DetailInputs }

\* C1: addRecord with a valid (category, description, details) leaves that
\* category with exactly one more item, the new item carrying the description
\* and the details supplied; every item that was in the store is still there,
\* in its place, and the lists of the two other categories are unchanged.
C1_AddRecordFrame ==
  [][ \A c \in Category, d \in Texts, det \in DetailLists :
        (~IsBlank(d) /\ onSave(c, d, det)) =>
          /\ Len(memory'[c]) = Len(memory[c]) + 1
          /\ \E k \in 1..Len(memory'[c]) :
               /\ memory'[c][k].value = MemoryValue(d, det)
               /\ RemoveAt(memory'[c], k) = memory[c]
          /\ \A o \in Category \ {c} : memory'[o] = memory[o] ]_vars

\* C1 witness: a record with details has been added to a category that already
\* held one, while another category holds a record too.
C1_Witness ==
  /\ IsStore(memory)
  /\ \E c \in Category :
       /\ Len(memory[c]) = 2
       /\ memory[c][1].value.details # <<>>
  /\ RecordCount(memory) >= 2

\* C2: addRecord with a description that is empty or white space only fails
\* with ValidationError, and changes neither the store in memory nor the value
\* stored under 'lucy_memory'.
C2_BlankDescriptionRejected ==
  [][ \A c \in Category, d \in Texts, det \in DetailInputs :
        (IsBlank(d) /\ addRecord(c, d, det)) =>
          /\ modalError' = "ValidationError"
          /\ memory' = memory
          /\ storage'.lucy_memory = storage.lucy_memory ]_vars

\* C2 witness: a white-space description has been refused, after a record was
\* stored.
C2_Witness ==
  /\ modalError = "ValidationError"
  /\ IsStore(memory) /\ RecordCount(memory) >= 1
  /\ storage.lucy_memory.present

\* C3: whenever the page is ready for an event, the value stored under
\* 'lucy_memory' is the whole store held in memory, so that the load of the
\* next page load yields a store equal to it (nothing stored yet stands for the
\* empty default store).
C3_WriteThrough ==
  Ready =>
    IF storage.lucy_memory.present
    THEN /\ storage.lucy_memory.text = JSONstringifyMemory(memory)
         /\ JSONparseMemory(storage.lucy_memory.text).ok
         /\ JSONparseMemory(storage.lucy_memory.text).val = memory
    ELSE memory = DEFAULT_MEMORY

\* C3 witness: two records added at instant 0 are held at instant 1, which
\* only the load of a later page load brings about.
C3_Witness ==
  /\ Ready
  /\ now = 1
  /\ IsStore(memory) /\ RecordCount(memory) = 2
  /\ \A c \in Category : \A i \in 1..Len(memory[c]) : memory[c][i].timestamp = 0
  /\ \E c \in Category : Len(memory[c]) >= 1 /\ memory[c][1].value.details # <<>>

\* C9: in filterByCategory of a category, a record added later stands before a
\* record added earlier (a record's uuid being its serial number).
C9_NewestFirst ==
  IsStore(memory) =>
    \A c \in Category :
      LET view == filterByCategory(memory, c)
      IN  \A i, j \in 1..Len(view) :
            i < j => /\ view[i].category = c
                     /\ view[i].item.id > view[j].item.id

\* C9 witness: a category holds two records.
C9_Witness == IsStore(memory) /\ \E c \in Category : Len(memory[c]) = 2

Rank(cat) == CHOOSE r \in 1..3 : <<"development", "mindset", "struggles">>[r] = cat

RECURSIVE ItemsOf(_, _)
ItemsOf(view, cat) ==
  IF view = <<>> THEN <<>>
  ELSE IF Head(view).category = cat
       THEN <<Head(view).item>> \o ItemsOf(Tail(view), cat)
       ELSE ItemsOf(Tail(view), cat)

\* C10: filterByCategory('all') returns as many items as the three categories
\* hold together, grouped in the order development, mindset, struggles, each
\* group in its category's own order.
C10_AllGroupsInOrder ==
  IsStore(memory) =>
    LET view == filterByCategory(memory, "all")
    IN  /\ Len(view) = Len(memory["struggles"]) + Len(memory["development"])
                       + Len(memory["mindset"])
        /\ \A i, j \in 1..Len(view) :
             i < j => Rank(view[i].category) <= Rank(view[j].category)
        /\ \A c \in Category : ItemsOf(view, c) = memory[c]

\* C10 witness: struggles and one more category hold a record.
C10_Witness ==
  /\ IsStore(memory)
  /\ Len(memory["struggles"]) = 1
  /\ Len(memory["development"]) + Len(memory["mindset"]) = 1

\* The stored bytes of the memory store are absent or corrupt: they do not
\* parse, or parse to something that is not a MemoryStore.
MemoryBytesBad ==
  \/ ~storage.lucy_memory.present
  \/ ~LoadedMemory.ok
  \/ ~IsStore(LoadedMemory.val)

PermsBytesBad ==
  \/ ~storage.lucy_permissions.present
  \/ ~LoadedPerms.ok
  \/ DOMAIN LoadedPerms.val # DOMAIN DEFAULT_PERMISSIONS

ThemeBytesBad ==
  \/ ~storage.lucy_theme.present
  \/ storage.lucy_theme.text \notin {"light", "dark"}

\* The initialization effect has just run.
LoadDone == pc \in {"effects", "crashed"}

\* C4: with the stored memory-store bytes absent or corrupt (the two other keys
\* holding nothing that fails to parse), the load does not raise and the store
\* in memory is the empty default store.
C4_BadBytesLoadDefault ==
  (/\ LoadDone
   /\ MemoryBytesBad
   /\ ~(Truthy(storage.lucy_permissions) /\ ~LoadedPerms.ok))
  => (pc # "crashed" /\ memory = DEFAULT_MEMORY)

\* C5: the three keys load independently: the load does not raise, a setting
\* whose stored value is absent or corrupt has its default, and a setting whose
\* stored value is sound has that value.
C5_KeysLoadIndependently ==
  LoadDone =>
    /\ pc # "crashed"
    /\ memory = IF MemoryBytesBad THEN DEFAULT_MEMORY ELSE LoadedMemory.val
    /\ theme = IF ThemeBytesBad THEN "light" ELSE storage.lucy_theme.text
    /\ permissions = IF PermsBytesBad THEN DEFAULT_PERMISSIONS ELSE LoadedPerms.val

\* C6: a send while a response is awaited, or with an empty or white-space
\* text, adds nothing to the transcript and starts no backend request; at most
\* one backend request is in flight in every reachable state.
C6_OneRequestAtATime ==
  /\ [](Len(pending) <= 1)
  /\ [][ (handleSendMessage /\ (isChatLoading \/ IsBlank(inputMessage))) =>
           (chatMessages' = chatMessages /\ pending' = pending) ]_vars

\* C6 witness: a non-blank text is in the input while a response is awaited,
\* where a send is a call the page takes and drops.
C6_Witness ==
  /\ Ready
  /\ isChatLoading /\ Len(pending) = 1
  /\ ~IsBlank(inputMessage)
  /\ Len(chatMessages) = 4

\* C7: when the backend call of an accepted send fails, exactly one message is
\* appended, with role 'model' and the fixed failure text; the controller is
\* Idle again, and a send of any non-blank text is then accepted.
C7_FailureIsOneFixedMessage ==
  [][ \A i \in 1..MaxTurns :
        BackendRejects(i) =>
          /\ Len(chatMessages') = Len(chatMessages) + 1
          /\ SubSeq(chatMessages', 1, Len(chatMessages)) = chatMessages
          /\ chatMessages'[Len(chatMessages')].role = "model"
          /\ chatMessages'[Len(chatMessages')].text = FailureText
          /\ ~isChatLoading' /\ pending' = <<>>
          /\ \A text \in Texts : ~IsBlank(text) => ~SendRejected(text, isChatLoading') ]_vars

\* C7 witness: the first turn failed, and the next send has been accepted.
C7_Witness ==
  /\ Len(chatMessages) >= 4
  /\ chatMessages[2].role = "user"
  /\ chatMessages[3].role = "model" /\ chatMessages[3].text = FailureText
  /\ chatMessages[4].role = "user"

\* A step of the running page: every handler of the chat and of the store, a
\* page load excluded.
SessionStep ==
  \/ \E text \in Texts : setInputMessage(text)
  \/ handleSendMessage
  \/ \E i \in 1..MaxTurns, r \in Responses : BackendResolves(i, r)
  \/ \E i \in 1..MaxTurns : BackendRejects(i)
  \/ AddRecord

\* C8: while Idle, after any number of completed turns, the page can reset the
\* session: a step of it yields the transcript of length 1 that holds exactly
\* the greeting.
C8_ResetYieldsGreeting ==
  (Ready /\ ~isChatLoading /\ Len(chatMessages) > 1) =>
    ENABLED (/\ SessionStep
             /\ Len(chatMessages') = 1
             /\ chatMessages'[1].role = "model"
             /\ chatMessages'[1].text = WelcomeText)

\* ----------------------------------------------------------------- C11
\* The texts typed into the journal's search box.
Queries == { <<>>, <<" ">>, <<"A">>, <<"B">> }

\* The journal from a first launch: records are added, the filter and the
\* search text set.
NextJournal ==
  \/ InitEffect
  \/ MountThemeEffect
  \/ Reload
  \/ \E c \in Category, det \in DetailInputs : addRecord(c, <<"a">>, det)
  \/ \E f \in Filters : setJournalFilter(f)
  \/ \E q \in Queries : setJournalSearchQuery(q)

SpecJournal == Init /\ [][NextJournal]_vars

\* Two characters that differ in case at most.
SameLetter(x, y) == x = y \/ {x, y} = {"a", "A"} \/ {x, y} = {"b", "B"}

\* The text s contains q, case left aside.
ContainsIgnoringCase(s, q) ==
  \E at \in 0..(Len(s) - Len(q)) : \A k \in 1..Len(q) : SameLetter(s[at + k], q[k])

\* The record's description or one of its details entries contains q.
Found(item, q) ==
  \/ ContainsIgnoringCase(item.value.description, q)
  \/ \E i \in 1..Len(item.value.details) : ContainsIgnoringCase(item.value.details[i], q)

RECURSIVE FoundIn(_, _)
FoundIn(view, q) ==
  IF view = <<>> THEN <<>>
  ELSE IF Found(Head(view).item, q)
       THEN <<Head(view)>> \o FoundIn(Tail(view), q)
       ELSE FoundIn(Tail(view), q)

\* C11: for the store, the filter and the search text of every reachable
\* state, and for every search text, the journal shows exactly the items of
\* filterByCategory(filter) whose description or some details entry contains
\* the text, case left aside, in the same order; with the empty text it shows
\* filterByCategory(filter).
C11_SearchComposesWithFilter ==
  IsStore(memory) =>
    /\ JournalView(memory, journalFilter, journalSearchQuery)
         = FoundIn(filterByCategory(memory, journalFilter), journalSearchQuery)
    /\ \A f \in Filters :
         /\ JournalView(memory, f, <<>>) = filterByCategory(memory, f)
         /\ \A q \in Queries :
              JournalView(memory, f, q) = FoundIn(filterByCategory(memory, f), q)

\* C11 witness: under the filter of one category holding two records, the
\* search text "B" keeps the record that has it, in lower case, in a details
\* entry only, and drops the other one.
C11_Witness ==
  /\ IsStore(memory)
  /\ journalFilter \in Category
  /\ journalSearchQuery = <<"B">>
  /\ Len(memory[journalFilter]) = 2
  /\ Len(JournalView(memory, journalFilter, journalSearchQuery)) = 1

\* ----------------------------------------------------------------- C12
\* The step appends a user message: a send has been accepted.
SendAccepted ==
  /\ Len(chatMessages') = Len(chatMessages) + 1
  /\ chatMessages'[Len(chatMessages')].role = "user"

\* C12: on every accepted send, the store passed to the backend with the
\* user's text is the whole store of that moment: the store in memory, which is
\* also what the records added so far have left under 'lucy_memory'.
C12_WholeCurrentStoreSent ==
  [][ SendAccepted =>
        /\ Len(pending') = Len(pending) + 1
        /\ LET call == pending'[Len(pending')]
           IN  /\ call.text = chatMessages'[Len(chatMessages')].text
               /\ call.memory = memory
               /\ IF storage.lucy_memory.present
                  THEN JSONparseMemory(storage.lucy_memory.text).val = call.memory
                  ELSE call.memory = DEFAULT_MEMORY ]_vars

\* C12 witness: the second turn is in flight, and the store sent with it holds
\* two records.
C12_Witness ==
  /\ Len(chatMessages) = 4
  /\ Len(pending) = 1
  /\ pending[1].memory = memory
  /\ RecordCount(pending[1].memory) = 2

\* ----------------------------------------------------------------- C13
\* A sendMessageToLucy call that is awaited settles: it resolves, or rejects.
Settle ==
  \/ \E i \in 1..MaxTurns, r \in Responses : BackendResolves(i, r)
  \/ \E i \in 1..MaxTurns : BackendRejects(i)

\* The chat, every backend call settling in the end.
SpecChatFair == SpecChat /\ WF_vars(Settle)

\* The greeting first, then user and model messages in turn, each model
\* message being a backend text or the failure text; a response is awaited
\* exactly while the last message is the user's.
TranscriptShape ==
  /\ Len(chatMessages) >= 1
  /\ chatMessages[1].id = 0
  /\ chatMessages[1].role = "model"
  /\ chatMessages[1].text = WelcomeText
  /\ \A i \in 2..Len(chatMessages) :
       IF i % 2 = 0
       THEN chatMessages[i].role = "user"
       ELSE /\ chatMessages[i].role = "model"
            /\ chatMessages[i].text \in Responses \cup {FailureText}
  /\ isChatLoading <=> (Len(chatMessages) % 2 = 0)

\* C13: the transcript starts with the greeting alone and, within a page load,
\* only grows by appends; an accepted send appends its user message at once
\* and is answered by exactly one model message before any further user
\* message, so that the roles alternate after the greeting; and, every backend
\* call settling in the end, the controller is Idle again after every accepted
\* send.
C13_TranscriptGrowsInTurns ==
  /\ Len(chatMessages) = 1
  /\ []TranscriptShape
  /\ [][ \/ pc' = "mounted"
         \/ chatMessages' = chatMessages
         \/ /\ Len(chatMessages') = Len(chatMessages) + 1
            /\ SubSeq(chatMessages', 1, Len(chatMessages)) = chatMessages ]_vars
  /\ [][ (handleSendMessage /\ ~isChatLoading /\ ~IsBlank(inputMessage)) =>
           (/\ SendAccepted
            /\ chatMessages'[Len(chatMessages')].text = inputMessage
            /\ isChatLoading') ]_vars
  /\ (isChatLoading ~> ~isChatLoading)

\* C13 witness: two turns are complete, the first one answered by the failure
\* text and the second one by the backend.
C13_Witness ==
  /\ Len(chatMessages) = 5
  /\ ~isChatLoading
  /\ chatMessages[3].text = FailureText
  /\ chatMessages[5].text \in Responses

\* ------------------------------------------------------------- permissions
\* permissions[key], undefined (falsy) when the stored flags lack the key.
Flag(perms, key) == key \in DOMAIN perms /\ perms[key]

\* { ...perms, [key]: value }
WithFlag(perms, key, value) ==
  [k \in DOMAIN perms \cup {key} |-> IF k = key THEN value ELSE perms[k]]

\* The rows of the settings screen that call updatePermissions.
ToggledKeys == {"mic", "activity"}

\* updatePermissions(key): the flag is flipped, set and stored; turning mic on
\* also asks the browser for the microphone.
updatePermissions(key) ==
  /\ Ready
  /\ LET newPerms == WithFlag(permissions, key, ~Flag(permissions, key))
         asks == key = "mic" /\ newPerms["mic"]
     IN  /\ asks => micPending < MaxMicRequests
         /\ permissions' = newPerms
         /\ storage' = [storage EXCEPT
                          !.lucy_permissions = Stored(JSONstringifyPerms(newPerms))]
         /\ micPending' = IF asks THEN micPending + 1 ELSE micPending
  /\ UNCHANGED << pc, memory, theme, themeDep, journalVars, chatVars, modalError, now >>

\* getUserMedia resolves: nothing is chained on the promise but the catch.
MicGranted ==
  /\ pc = "running"
  /\ micPending > 0
  /\ micPending' = micPending - 1
  /\ UNCHANGED << pc, storage, memory, theme, themeDep, permissions, journalVars,
                  chatVars, modalError, now >>

\* getUserMedia rejects: setPermissions(p => ({ ...p, mic: false })).
MicDenied ==
  /\ pc = "running"
  /\ micPending > 0
  /\ micPending' = micPending - 1
  /\ permissions' = WithFlag(permissions, "mic", FALSE)
  /\ UNCHANGED << pc, storage, memory, theme, themeDep, journalVars, chatVars,
                  modalError, now >>

\* The settings screen from a first launch: its switches and the theme button.
NextPermissions ==
  \/ InitEffect
  \/ MountThemeEffect
  \/ ThemeEffect
  \/ toggleTheme
  \/ Reload
  \/ \E key \in ToggledKeys : updatePermissions(key)
  \/ MicGranted
  \/ MicDenied

SpecPermissions == Init /\ [][NextPermissions]_vars

\* C14: once the page is ready and no getUserMedia request is awaited, the
\* flags stored under 'lucy_permissions' are the flags in memory (nothing
\* stored yet standing for the default flags), also after a mic switch that
\* the browser's denial has rolled back.
C14_StoredFlagsAreTheFlags ==
  (Ready /\ micPending = 0) =>
    IF storage.lucy_permissions.present
    THEN LoadedPerms.ok /\ LoadedPerms.val = permissions
    ELSE permissions = DEFAULT_PERMISSIONS

====
